---------------------------- MODULE Spec2Model ----------------------------
(***************************************************************************)
(* Model of AgentClinicProcess.run_episode                                 *)
(* (code/envs/agentclinic_adapter.py): the driver that reads the child     *)
(* process's stdout one character at a time, detects prompts at the tail   *)
(* of the output, classifies completed lines, calls the reply callback     *)
(* and writes its reply to the child's stdin; of terminate() called by     *)
(* the caller; and of the reply callback that make_doctor_callback         *)
(* (code/bridge/dylan_bridge.py) builds.                                   *)
(*                                                                         *)
(* Spec is run_episode with a peer that writes short chunks; PromptSpec    *)
(* and LongSpec are run_episode with a peer that prints one prompt, or a   *)
(* long line; GapSpec, MentionSpec and PartialSpec are run_episode with a  *)
(* peer that prints long runs of blanks, a patient line that mentions a    *)
(* doctor, or output without a final newline; StopSpec adds the caller's   *)
(* own calls of terminate(); BridgeSpec is one call of the callback.       *)
(*                                                                         *)
(* Text is a sequence of one-character strings.  The regular expressions   *)
(* of the class are evaluated as the sets of positions a match can end at. *)
(***************************************************************************)
EXTENDS Integers, Sequences, FiniteSets, TLC

(***************************************************************************)
(* Bounds of the model.                                                    *)
(***************************************************************************)
\* largest value of total_inferences (max_rounds) a session is built with
MaxRoundsCfg == 2
\* largest value of prompt_timeout_s a session is built with, in clock ticks
MaxTimeoutCfg == 1
\* the clock stops advancing at this value
MaxTime == 3
\* number of chunks the peer writes in a free-form session
MaxFrags == 2
\* number of calls of terminate() the caller makes outside run_episode
MaxStops == 2

(***************************************************************************)
(* Program constants.                                                      *)
(***************************************************************************)
\* tail = (tail + ch)[-512:]
TAIL_KEEP == 512
\* s = tail[-200:].rstrip()
TAIL_WINDOW == 200

(***************************************************************************)
(* Characters and strings.                                                 *)
(***************************************************************************)
LowerMap ==
    "A" :> "a" @@ "B" :> "b" @@ "C" :> "c" @@ "D" :> "d" @@ "E" :> "e" @@
    "F" :> "f" @@ "G" :> "g" @@ "H" :> "h" @@ "I" :> "i" @@ "J" :> "j" @@
    "K" :> "k" @@ "L" :> "l" @@ "M" :> "m" @@ "N" :> "n" @@ "O" :> "o" @@
    "P" :> "p" @@ "Q" :> "q" @@ "R" :> "r" @@ "S" :> "s" @@ "T" :> "t" @@
    "U" :> "u" @@ "V" :> "v" @@ "W" :> "w" @@ "X" :> "x" @@ "Y" :> "y" @@
    "Z" :> "z"

\* re.IGNORECASE: characters are compared after case folding
Lower(c) == IF c \in DOMAIN LowerMap THEN LowerMap[c] ELSE c

\* the class \s, and the characters str.strip()/rstrip() remove
IsSpace(c) == c \in {" ", "\t", "\n", "\r", "\f"}

\* the class \d
IsDigit(c) == c \in {"0", "1", "2", "3", "4", "5", "6", "7", "8", "9"}

\* the class [:U+FF1A] of PATIENT_LINE_PAT (ASCII and full-width colon)
ColonChars == {":", "U+FF1A"}

MaxOf(S) == CHOOSE m \in S : \A k \in S : k <= m
MinOf(S) == CHOOSE m \in S : \A k \in S : m <= k

\* s[-n:]
LastN(s, n) == IF Len(s) <= n THEN s ELSE SubSeq(s, Len(s) - n + 1, Len(s))

\* s.rstrip()
RStrip(s) ==
    SubSeq(s, 1, MaxOf({0} \cup {i \in 1..Len(s) : ~IsSpace(s[i])}))

\* s.strip()
Strip(s) ==
    LET r == RStrip(s)
        first == MinOf({Len(r) + 1} \cup {i \in 1..Len(r) : ~IsSpace(r[i])})
    IN  SubSeq(r, first, Len(r))

(***************************************************************************)
(* Regular-expression pieces.  P is a set of positions (numbers of         *)
(* characters of s already consumed); each piece returns the positions     *)
(* reachable after it.                                                     *)
(***************************************************************************)
\* a literal word, case-insensitively
Lit(s, P, w) ==
    {p + Len(w) : p \in {q \in P : /\ q + Len(w) <= Len(s)
                                   /\ \A k \in 1..Len(w) :
                                         Lower(s[q + k]) = Lower(w[k])}}

\* \s*
WsStar(s, P) ==
    UNION {{q \in p..Len(s) : \A k \in (p + 1)..q : IsSpace(s[k])} : p \in P}

\* \s+
WsPlus(s, P) ==
    UNION {{q \in (p + 1)..Len(s) : \A k \in (p + 1)..q : IsSpace(s[k])} : p \in P}

\* \d+
DigitsPlus(s, P) ==
    UNION {{q \in (p + 1)..Len(s) : \A k \in (p + 1)..q : IsDigit(s[k])} : p \in P}

\* one character of the set cs
OneChar(s, P, cs) == {p + 1 : p \in {q \in P : q < Len(s) /\ s[q + 1] \in cs}}

\* (?:\s*\[\d+%])?
OptProgress(s, P) ==
    P \cup OneChar(s, OneChar(s, DigitsPlus(s, OneChar(s, WsStar(s, P), {"["})),
                              {"%"}), {"]"})

\* $ : at the end of the string, or just before a newline that ends it
AtEnd(s, P) ==
    \/ Len(s) \in P
    \/ Len(s) >= 1 /\ s[Len(s)] = "\n" /\ (Len(s) - 1) \in P

W_your == <<"y", "o", "u", "r">>
W_response == <<"r", "e", "s", "p", "o", "n", "s", "e">>
W_enter == <<"e", "n", "t", "e", "r">>
W_doctor == <<"d", "o", "c", "t", "o", "r">>
W_question == <<"q", "u", "e", "s", "t", "i", "o", "n">>
W_for == <<"f", "o", "r">>
W_patient == <<"p", "a", "t", "i", "e", "n", "t">>
W_p == <<"p">>
W_final == <<"f", "i", "n", "a", "l">>
W_diagnosis == <<"d", "i", "a", "g", "n", "o", "s", "i", "s">>
W_case == <<"c", "a", "s", "e">>
W_over == <<"o", "v", "e", "r">>
W_thank == <<"t", "h", "a", "n", "k">>
W_you == <<"y", "o", "u">>

\* Your\s+response
AltYourResponse(s, P) == Lit(s, WsPlus(s, Lit(s, P, W_your)), W_response)

\* Enter\s+your\s+response
AltEnterYourResponse(s, P) ==
    Lit(s, WsPlus(s, Lit(s, WsPlus(s, Lit(s, P, W_enter)), W_your)), W_response)

\* Doctor(?:\s*\[\d+%])?\s*:?\s*
AltDoctor(s, P) ==
    LET a == WsStar(s, OptProgress(s, Lit(s, P, W_doctor)))
    IN  WsStar(s, a \cup OneChar(s, a, {":"}))

\* Question\s+for\s+patient\s*:?
AltQuestion(s, P) ==
    LET a == WsStar(s, Lit(s, WsPlus(s, Lit(s, WsPlus(s, Lit(s, P, W_question)),
                                            W_for)), W_patient))
    IN  a \cup OneChar(s, a, {":"})

\* PROMPT_TAIL_PAT.search(s): some start position leads to the end of s
PROMPT_TAIL_PAT(s) ==
    LET starts == 0..Len(s)
        alts == AltYourResponse(s, starts) \cup AltEnterYourResponse(s, starts)
                \cup AltDoctor(s, starts) \cup AltQuestion(s, starts)
    IN  AtEnd(s, WsStar(s, alts))

\* _tail_has_prompt(tail)
TailHasPrompt(t) == \E s \in {RStrip(LastN(t, TAIL_WINDOW))} : PROMPT_TAIL_PAT(s)

\* PATIENT_LINE_PAT.match(line), up to and including the colon:
\* ^\s*(?:PATIENT|Patient|P)(?:\s*\[\d+%])?\s*[:U+FF1A]
PatientColonEnds(s) ==
    LET lead == WsStar(s, {0})
        label == Lit(s, lead, W_patient) \cup Lit(s, lead, W_p)
    IN  OneChar(s, WsStar(s, OptProgress(s, label)), ColonChars)

\* \s*(.+)$ after the colon: the places group 1 can start ('.' is any
\* character but a newline, and the group takes at least one character)
PatientGroupStarts(s) ==
    {g \in WsStar(s, PatientColonEnds(s)) :
        /\ g < Len(s)
        /\ \A k \in (g + 1)..Len(s) : s[k] # "\n" \/ k = Len(s)
        /\ s[g + 1] # "\n"}

\* bool(PATIENT_LINE_PAT.match(line))
IsPatientLine(s) == PatientGroupStarts(s) # {}

\* m.group(0).strip(): the whole line instead of the captured text
PatientTextWholeLine(s) == Strip(s)

\* m.group(1).strip(): \s* is greedy, so the group starts as late as it can
PatientText(s) ==
    LET g == MaxOf(PatientGroupStarts(s))
        e == IF s[Len(s)] = "\n" THEN Len(s) - 1 ELSE Len(s)
    IN  Strip(SubSeq(s, g + 1, e))

\* _is_end_line(line): any of END_PATTERNS is found in the line
IsEndLine(s) ==
    \/ Lit(s, WsPlus(s, Lit(s, 0..Len(s), W_final)), W_diagnosis) # {}
    \/ Lit(s, WsPlus(s, Lit(s, 0..Len(s), W_case)), W_over) # {}
    \/ Lit(s, WsPlus(s, Lit(s, 0..Len(s), W_thank)), W_you) # {}

(***************************************************************************)
(* The peer (the AgentClinic child process) and the reply callback.        *)
(***************************************************************************)
PromptLine == <<"D", "o", "c", "t", "o", "r", ":", " ">>
PatientLine == <<"P", ":", " ", "h", "i", "\n">>
EndLine == <<"t", "h", "a", "n", "k", " ", "y", "o", "u", "\n">>
NoiseLine == <<"x", "\n">>
HeadacheLine == <<"P", "a", "t", "i", "e", "n", "t", " ", "[", "1", "0", "%", "]", ":", " ", "I", " ", "h", "a", "v", "e", " ", "a", " ", "h", "e", "a", "d", "a", "c", "h", "e", ".", "\n">>
HeadacheText == <<"I", " ", "h", "a", "v", "e", " ", "a", " ", "h", "e", "a", "d", "a", "c", "h", "e", ".">>
DoctorColon == <<"D", "o", "c", "t", "o", "r", ":">>
SceneLine == <<"S", "c", "e", "n", "e", " ", "0", ",", " ", "T", "h", "e", " ", "d", "i", "a", "g", "n", "o", "s", "i", "s", " ", "w", "a", "s", " ", "C", "O", "R", "R", "E", "C", "T", " ", "1", "0", "0", "\n">>
PatientThanksLine == <<"P", ":", " ", "t", "h", "a", "n", "k", " ", "y", "o", "u", "\n">>
DoctorColonNl == <<"D", "o", "c", "t", "o", "r", ":", "\n">>
ReplyA == <<"o", "k">>
ReplyB == <<"o", "k", " ", "\n">>

\* chunks of a free-form session: a prompt without a newline, a patient
\* line, an end-of-session line, a line of noise
ShortFrags == {PromptLine, PatientLine, EndLine, NoiseLine}

\* "Doctor: " written one character at a time
ScriptDoctorPrompt == [i \in 1..Len(PromptLine) |-> <<PromptLine[i]>>]
\* a patient line, then "Doctor:" without a newline
ScriptHeadache == <<HeadacheLine, DoctorColon>>
\* the line AgentClinic prints when a scene is over
ScriptDiagnosis == <<SceneLine>>

\* a prompt on a line of its own, then a patient line that holds an end
\* phrase
ScriptPatientThanks == <<DoctorColonNl, PatientThanksLine>>

ScenarioScripts ==
    {ScriptDoctorPrompt, ScriptHeadache, ScriptDiagnosis, ScriptPatientThanks}

\* prompts in the dialects of PROMPT_TAIL_PAT, none ended by a newline
PromptYourResponse == <<"Y", "o", "u", "r", " ", "r", "e", "s", "p", "o", "n", "s", "e">>
PromptEnterYourResponse == <<"E", "n", "t", "e", "r", " ", "y", "o", "u", "r", " ", "r", "e", "s", "p", "o", "n", "s", "e", ":", " ">>
PromptDoctorBare == <<"D", "o", "c", "t", "o", "r">>
PromptDoctorProgress == <<"D", "o", "c", "t", "o", "r", " ", "[", "3", "3", "%", "]", ":", " ">>
PromptDoctorTight == <<"d", "o", "c", "t", "o", "r", "[", "5", "%", "]", ":">>
PromptQuestion == <<"Q", "u", "e", "s", "t", "i", "o", "n", " ", "f", "o", "r", " ", "p", "a", "t", "i", "e", "n", "t", ":", " ">>
PromptQuestionBare == <<"q", "u", "e", "s", "t", "i", "o", "n", " ", " ", "f", "o", "r", " ", "p", "a", "t", "i", "e", "n", "t">>

PromptDialects ==
    {PromptLine, PromptYourResponse, PromptEnterYourResponse, PromptDoctorBare,
     PromptDoctorProgress, PromptDoctorTight, PromptQuestion, PromptQuestionBare}

\* more than TAIL_KEEP characters of one line, then a prompt
LongNoise == [i \in 1..(TAIL_KEEP + 1) |-> "x"]
ScriptLongLine == <<LongNoise, PromptLine>>

\* a line longer than the match window that ends in a run of blanks
GapLine ==
    [i \in 1..(TAIL_WINDOW + 11) |->
        IF i <= TAIL_WINDOW - 50 THEN "x"
        ELSE IF i <= TAIL_WINDOW + 10 THEN " " ELSE "\n"]
ScriptGapThenPrompt == <<GapLine, PromptLine>>
ScriptPromptThenGap == <<PromptDoctorProgress, GapLine>>
GapScripts == {ScriptGapThenPrompt, ScriptPromptThenGap}
GapFrags == UNION {{sc[i] : i \in 1..Len(sc)} : sc \in GapScripts}

\* a patient line whose text ends in the word "doctor"
PatientDoctorLine == <<"P", ":", " ", "m", "y", " ", "d", "o", "c", "t", "o", "r", "\n">>
ScriptPatientMentionsDoctor == <<PatientDoctorLine, PromptLine>>

\* output that ends without a newline: a patient utterance, an
\* end-of-session phrase, a patient utterance that ends in "doctor"
PatientPartial == <<"P", ":", " ", "h", "i">>
EndPartial == <<"t", "h", "a", "n", "k", " ", "y", "o", "u">>
MentionPartial == <<"P", ":", " ", "m", "y", " ", "d", "o", "c", "t", "o", "r">>
PartialFrags == {PatientPartial, EndPartial, MentionPartial}

AllFrags ==
    ShortFrags \cup UNION {{sc[i] : i \in 1..Len(sc)} : sc \in ScenarioScripts}

IsPrefix(a, b) == Len(a) <= Len(b) /\ \A i \in 1..Len(a) : a[i] = b[i]

\* the peer follows one of the scenario scripts, or writes up to MaxFrags
\* chunks of ShortFrags in any order
CanSend(done, f) ==
    \/ \E sc \in ScenarioScripts : IsPrefix(Append(done, f), sc)
    \/ /\ Len(done) < MaxFrags
       /\ f \in ShortFrags
       /\ \A i \in 1..Len(done) : done[i] \in ShortFrags

\* texts the reply callback returns (one with trailing white space)
Replies == {ReplyA, ReplyB}

\* what a call of the callback does: it returns a text or it raises
ReplyResults == {<<"return", r>> : r \in Replies} \cup {<<"raise", <<>>>>}

RECURSIVE Flatten(_)
Flatten(ss) == IF ss = <<>> THEN <<>> ELSE Head(ss) \o Flatten(Tail(ss))

(***************************************************************************)
(* State.                                                                  *)
(***************************************************************************)
VARIABLES
    pc,               \* where run_episode is
    history,          \* history: the transcript, a list of (speaker, text)
    tail,             \* tail: the last characters of the output
    cur_line,         \* cur_line: the line being accumulated
    rounds,           \* rounds
    t_last_output,    \* t_last_output
    reply,            \* reply: the text the callback returned
    max_rounds,       \* self.max_rounds
    prompt_timeout_s, \* self.prompt_timeout_s
    now,              \* time.time()
    pipe,             \* characters written to stdout and not yet read
    peerAlive,        \* self._p.poll() is None
    sent,             \* the chunks the peer has written so far
    stdin_log,        \* the texts written to f_in, in order
    writePos,         \* the number of characters read when each was written
    replyArgs,        \* the history passed to each call of the callback
    endReason,        \* which break left the main loop
    exc,              \* the exception that is propagating, if any
    outcome,          \* how run_episode ended: "return" or "raise"
    terminateCalls,   \* calls of self.terminate()
    killSent,         \* calls of self._p.terminate()
    stalledTooLong,   \* a read(1) has blocked for more than prompt_timeout_s
    stopCalls,        \* the caller's own calls of terminate() since run_episode began
    signalPending,    \* the child was signalled and is not reaped yet
    cbHistory,        \* the history a callback of make_doctor_callback is given
    cbOutcome,        \* what the run of run_DyLAN.py does for that call
    cbResult          \* what the callback did: returned a text, or raised

vars == <<pc, history, tail, cur_line, rounds, t_last_output, reply, max_rounds,
          prompt_timeout_s, now, pipe, peerAlive, sent, stdin_log, writePos, replyArgs,
          endReason, exc, outcome, terminateCalls, killSent, stalledTooLong,
          stopCalls, signalPending, cbHistory, cbOutcome, cbResult>>

driverVars == <<history, tail, cur_line, rounds, t_last_output, reply>>
cfgVars == <<max_rounds, prompt_timeout_s>>
ghostVars == <<stdin_log, writePos, replyArgs, endReason, exc, outcome, terminateCalls, killSent>>
clockVars == <<now, stalledTooLong>>
stopVars == <<stopCalls, signalPending>>
bridgeVars == <<cbHistory, cbOutcome, cbResult>>

\* __init__: total_inferences and prompt_timeout_s are the caller's
EpisodeInit ==
    /\ pc = "start"
    /\ history = <<>>
    /\ tail = <<>>
    /\ cur_line = <<>>
    /\ rounds = 0
    /\ t_last_output = 0
    /\ reply = <<>>
    /\ max_rounds \in 1..MaxRoundsCfg
    /\ prompt_timeout_s \in 1..MaxTimeoutCfg
    /\ now = 0
    /\ pipe = <<>>
    /\ peerAlive = FALSE
    /\ sent = <<>>
    /\ stdin_log = <<>>
    /\ writePos = <<>>
    /\ replyArgs = <<>>
    /\ endReason = "NONE"
    /\ exc = "none"
    /\ outcome = "none"
    /\ terminateCalls = 0
    /\ killSent = 0
    /\ stalledTooLong = FALSE
    /\ stopCalls = 0
    /\ signalPending = FALSE

\* no callback of make_doctor_callback is being looked at
Init ==
    /\ EpisodeInit
    /\ cbHistory = <<>>
    /\ cbOutcome = <<"missing", <<>>>>
    /\ cbResult = <<"none", <<>>>>

(***************************************************************************)
(* Conditions of run_episode.                                              *)
(***************************************************************************)
\* a tail that is left as it is after a reply
TailAfterReplyKept(t) == t

\* a tail cut to the match window instead of being cleared
TailAfterReplyWindow(t) == LastN(t, TAIL_WINDOW)

\* tail = "" after a reply to a prompt tail
TailAfterReply(t) == <<>>

\* a tail that is never cut
KeepTailAll(t) == t

\* tail = (tail + ch)[-512:]
KeepTail(t) == LastN(t, TAIL_KEEP)

RoundLimitReachedOffByOne(r, m) == r > m

\* a loop that never ends for the round limit
RoundLimitIgnored(r, m) == FALSE

\* if rounds >= self.max_rounds
RoundLimitReached(r, m) == r >= m

\* a timeout that is measured from the start of the session
TimedOutSinceStart(t, last, limit) == t > limit

\* if time.time() - t_last_output > self.prompt_timeout_s
TimedOut(t, last, limit) == t - last > limit

\* the reply written as it is, without rstrip()
FormatReplyNoStrip(r) == r \o <<"\n">>

\* reply.rstrip() + "\n"
FormatReply(r) == RStrip(r) \o <<"\n">>

\* an entry that is put in front of the transcript
AppendEntryFirst(h, e) == <<e>> \o h

\* history.append((speaker, text))
AppendEntry(h, e) == Append(h, e)

Running == pc \in {"read", "end_reply", "end_write", "tail_reply", "tail_write"}

(***************************************************************************)
(* The peer.  The pipe carries one chunk at a time: the peer writes its    *)
(* next chunk when the driver has read the last one and waits in read(1).  *)
(***************************************************************************)
PeerWrite(f) ==
    /\ pc = "read"
    /\ peerAlive
    /\ pipe = <<>>
    /\ CanSend(sent, f)
    /\ pipe' = f
    /\ sent' = Append(sent, f)
    /\ UNCHANGED <<stopVars, bridgeVars>>
    /\ UNCHANGED <<pc, driverVars, cfgVars, clockVars, peerAlive, ghostVars>>

\* the child process exits by itself; what it wrote stays in the pipe
PeerExit ==
    /\ Running
    /\ peerAlive
    /\ peerAlive' = FALSE
    /\ UNCHANGED <<stopVars, bridgeVars>>
    /\ UNCHANGED <<pc, driverVars, cfgVars, clockVars, pipe, sent, ghostVars>>

\* time passes while read(1) blocks on an empty pipe of a running child
Tick ==
    /\ pc = "read"
    /\ peerAlive
    /\ pipe = <<>>
    /\ now < MaxTime
    /\ now' = now + 1
    /\ stalledTooLong' = (stalledTooLong \/ now + 1 - t_last_output > prompt_timeout_s)
    /\ UNCHANGED <<stopVars, bridgeVars>>
    /\ UNCHANGED <<pc, driverVars, cfgVars, pipe, peerAlive, sent, ghostVars>>

(***************************************************************************)
(* run_episode.                                                            *)
(***************************************************************************)
\* self.start() and the initialisation of the locals
Start ==
    /\ pc = "start"
    /\ pc' = "read"
    /\ peerAlive' = TRUE
    /\ history' = <<>>
    /\ tail' = <<>>
    /\ cur_line' = <<>>
    /\ rounds' = 0
    /\ t_last_output' = now
    /\ stopCalls' = 0
    /\ UNCHANGED <<signalPending, bridgeVars>>
    /\ UNCHANGED <<reply, cfgVars, clockVars, pipe, sent, ghostVars>>

\* subprocess.Popen raises: the exception leaves run_episode before the try
StartFail ==
    /\ pc = "start"
    /\ pc' = "returned"
    /\ exc' = "start"
    /\ outcome' = "raise"
    /\ UNCHANGED <<stopVars, bridgeVars>>
    /\ UNCHANGED <<driverVars, cfgVars, clockVars, pipe, peerAlive, sent, stdin_log, writePos,
                   replyArgs, endReason, terminateCalls, killSent>>

\* read(1) with the prompt looked for in the line read so far
ReadCharChecksLine ==
    /\ pc = "read"
    /\ pipe # <<>>
    /\ LET ch == Head(pipe)
           tail1 == KeepTail(tail \o <<ch>>)
           isNl == ch = "\n"
           hist1 == IF isNl /\ IsPatientLine(cur_line)
                    THEN AppendEntry(history, <<"PATIENT", PatientText(cur_line)>>)
                    ELSE history
           endNow == isNl /\ IsEndLine(cur_line)
           line1 == IF isNl THEN <<>> ELSE cur_line \o <<ch>>
       IN  /\ pipe' = Tail(pipe)
           /\ t_last_output' = now
           /\ tail' = tail1
           /\ history' = hist1
           /\ IF endNow
              THEN /\ pc' = "end_reply"
                   /\ cur_line' = cur_line
                   /\ endReason' = endReason
              ELSE /\ cur_line' = line1
                   /\ IF TailHasPrompt(line1)
                      THEN pc' = "tail_reply" /\ endReason' = endReason
                      ELSE IF TimedOut(now, now, prompt_timeout_s)
                           THEN pc' = "finally" /\ endReason' = "TIMEOUT"
                           ELSE pc' = "read" /\ endReason' = endReason
    /\ UNCHANGED <<stopVars, bridgeVars>>
    /\ UNCHANGED <<rounds, reply, cfgVars, clockVars, peerAlive, sent, stdin_log, writePos,
                   replyArgs, exc, outcome, terminateCalls, killSent>>

\* read(1) with every completed line appended to the transcript
ReadCharAppendsEveryLine ==
    /\ pc = "read"
    /\ pipe # <<>>
    /\ LET ch == Head(pipe)
           tail1 == KeepTail(tail \o <<ch>>)
           isNl == ch = "\n"
           hist1 == IF isNl
                    THEN AppendEntry(history, <<"PATIENT", Strip(cur_line)>>)
                    ELSE history
           endNow == isNl /\ IsEndLine(cur_line)
           line1 == IF isNl THEN <<>> ELSE cur_line \o <<ch>>
       IN  /\ pipe' = Tail(pipe)
           /\ t_last_output' = now
           /\ tail' = tail1
           /\ history' = hist1
           /\ IF endNow
              THEN /\ pc' = "end_reply"
                   /\ cur_line' = cur_line
                   /\ endReason' = endReason
              ELSE /\ cur_line' = line1
                   /\ IF TailHasPrompt(tail1)
                      THEN pc' = "tail_reply" /\ endReason' = endReason
                      ELSE IF TimedOut(now, now, prompt_timeout_s)
                           THEN pc' = "finally" /\ endReason' = "TIMEOUT"
                           ELSE pc' = "read" /\ endReason' = endReason
    /\ UNCHANGED <<stopVars, bridgeVars>>
    /\ UNCHANGED <<rounds, reply, cfgVars, clockVars, peerAlive, sent, stdin_log, writePos,
                   replyArgs, exc, outcome, terminateCalls, killSent>>

\* ch = f_out.read(1) returns a character; the body of the loop up to the
\* next call of the callback, or to the end of the iteration
ReadChar ==
    /\ pc = "read"
    /\ pipe # <<>>
    /\ LET ch == Head(pipe)
           tail1 == KeepTail(tail \o <<ch>>)
           isNl == ch = "\n"
           hist1 == IF isNl /\ IsPatientLine(cur_line)
                    THEN AppendEntry(history, <<"PATIENT", PatientText(cur_line)>>)
                    ELSE history
           endNow == isNl /\ IsEndLine(cur_line)
           line1 == IF isNl THEN <<>> ELSE cur_line \o <<ch>>
       IN  /\ pipe' = Tail(pipe)
           /\ t_last_output' = now
           /\ tail' = tail1
           /\ history' = hist1
           /\ IF endNow
              THEN /\ pc' = "end_reply"
                   /\ cur_line' = cur_line
                   /\ endReason' = endReason
              ELSE /\ cur_line' = line1
                   /\ IF TailHasPrompt(tail1)
                      THEN pc' = "tail_reply" /\ endReason' = endReason
                      ELSE IF TimedOut(now, now, prompt_timeout_s)
                           THEN pc' = "finally" /\ endReason' = "TIMEOUT"
                           ELSE pc' = "read" /\ endReason' = endReason
    /\ UNCHANGED <<stopVars, bridgeVars>>
    /\ UNCHANGED <<rounds, reply, cfgVars, clockVars, peerAlive, sent, stdin_log, writePos,
                   replyArgs, exc, outcome, terminateCalls, killSent>>

\* an end of stream at which the unterminated line is classified
ReadEOFClassifiesLine ==
    /\ pc = "read"
    /\ pipe = <<>>
    /\ ~peerAlive
    /\ pc' = "finally"
    /\ endReason' = "STREAM_CLOSED"
    /\ history' = IF IsPatientLine(cur_line)
                  THEN AppendEntry(history, <<"PATIENT", PatientText(cur_line)>>)
                  ELSE history
    /\ UNCHANGED <<stopVars, bridgeVars>>
    /\ UNCHANGED <<tail, cur_line, rounds, t_last_output, reply, cfgVars, clockVars, pipe,
                   peerAlive, sent, stdin_log, writePos, replyArgs, exc, outcome,
                   terminateCalls, killSent>>

\* f_out.read(1) returns "": the child has exited and the pipe is drained
ReadEOF ==
    /\ pc = "read"
    /\ pipe = <<>>
    /\ ~peerAlive
    /\ pc' = "finally"
    /\ endReason' = "STREAM_CLOSED"
    /\ UNCHANGED <<stopVars, bridgeVars>>
    /\ UNCHANGED <<driverVars, cfgVars, clockVars, pipe, peerAlive, sent, stdin_log, writePos,
                   replyArgs, exc, outcome, terminateCalls, killSent>>

\* a callback failure that is swallowed: an empty reply is sent instead
InvokeReplySwallow ==
    /\ pc \in {"end_reply", "tail_reply"}
    /\ replyArgs' = Append(replyArgs, history)
    /\ \E d \in 0..(MaxTime - now) :
          /\ now' = now + d
          /\ \E res \in ReplyResults :
                /\ exc' = IF res[1] = "raise" THEN "reply" ELSE exc
                /\ pc' = IF pc = "end_reply" THEN "end_write" ELSE "tail_write"
                /\ reply' = res[2]
    /\ UNCHANGED <<stopVars, bridgeVars>>
    /\ UNCHANGED <<history, tail, cur_line, rounds, t_last_output, cfgVars, pipe,
                   peerAlive, sent, stdin_log, writePos, endReason, outcome, terminateCalls,
                   killSent, stalledTooLong>>

\* reply = on_doctor_utterance(history): the callback takes d ticks and
\* returns a text, or raises
InvokeReply ==
    /\ pc \in {"end_reply", "tail_reply"}
    /\ replyArgs' = Append(replyArgs, history)
    /\ \E d \in 0..(MaxTime - now) :
          /\ now' = now + d
          /\ \E res \in ReplyResults :
                IF res[1] = "raise"
                THEN /\ exc' = "reply"
                     /\ pc' = "finally"
                     /\ reply' = reply
                ELSE /\ exc' = exc
                     /\ pc' = IF pc = "end_reply" THEN "end_write" ELSE "tail_write"
                     /\ reply' = res[2]
    /\ UNCHANGED <<stopVars, bridgeVars>>
    /\ UNCHANGED <<history, tail, cur_line, rounds, t_last_output, cfgVars, pipe,
                   peerAlive, sent, stdin_log, writePos, endReason, outcome, terminateCalls,
                   killSent, stalledTooLong>>

\* an end-of-session reply that is handled like the reply to a prompt: the
\* round is counted and the loop goes on while the limit is not reached
WriteReplyEndGoesOn ==
    /\ pc \in {"end_write", "tail_write"}
    /\ IF ~peerAlive
       THEN /\ exc' = "write"
            /\ pc' = "finally"
            /\ UNCHANGED <<history, tail, rounds, stdin_log, writePos, endReason>>
       ELSE /\ exc' = exc
            /\ stdin_log' = Append(stdin_log, FormatReply(reply))
            /\ writePos' = Append(writePos, Len(Flatten(sent)) - Len(pipe))
            /\ history' = AppendEntry(history, <<"DOCTOR", reply>>)
            /\ rounds' = rounds + 1
            /\ IF RoundLimitReached(rounds + 1, max_rounds)
               THEN /\ pc' = "finally"
                    /\ endReason' = "ROUND_LIMIT"
                    /\ tail' = tail
               ELSE /\ tail' = TailAfterReply(tail)
                    /\ pc' = "read"
                    /\ endReason' = endReason
    /\ UNCHANGED <<stopVars, bridgeVars>>
    /\ UNCHANGED <<cur_line, t_last_output, reply, cfgVars, clockVars, pipe, peerAlive,
                   sent, replyArgs, outcome, terminateCalls, killSent>>

\* the tail check as a loop: replies are sent for as long as the tail
\* ends in a prompt, and the tail is not cleared in between
WriteReplyWhilePrompt ==
    /\ pc \in {"end_write", "tail_write"}
    /\ IF ~peerAlive
       THEN /\ exc' = "write"
            /\ pc' = "finally"
            /\ UNCHANGED <<history, tail, rounds, stdin_log, writePos, endReason>>
       ELSE /\ exc' = exc
            /\ stdin_log' = Append(stdin_log, FormatReply(reply))
            /\ writePos' = Append(writePos, Len(Flatten(sent)) - Len(pipe))
            /\ history' = AppendEntry(history, <<"DOCTOR", reply>>)
            /\ IF pc = "end_write"
               THEN /\ pc' = "finally"
                    /\ endReason' = "END_SIGNAL"
                    /\ UNCHANGED <<tail, rounds>>
               ELSE /\ rounds' = rounds + 1
                    /\ IF RoundLimitReached(rounds + 1, max_rounds)
                       THEN /\ pc' = "finally"
                            /\ endReason' = "ROUND_LIMIT"
                            /\ tail' = tail
                       ELSE /\ tail' = tail
                            /\ pc' = "tail_reply"
                            /\ endReason' = endReason
    /\ UNCHANGED <<stopVars, bridgeVars>>
    /\ UNCHANGED <<cur_line, t_last_output, reply, cfgVars, clockVars, pipe, peerAlive,
                   sent, replyArgs, outcome, terminateCalls, killSent>>

\* the reply is appended to the transcript before it is written
WriteReplyAppendsFirst ==
    /\ pc \in {"end_write", "tail_write"}
    /\ IF ~peerAlive
       THEN /\ exc' = "write"
            /\ pc' = "finally"
            /\ history' = AppendEntry(history, <<"DOCTOR", reply>>)
            /\ UNCHANGED <<tail, rounds, stdin_log, writePos, endReason>>
       ELSE /\ exc' = exc
            /\ stdin_log' = Append(stdin_log, FormatReply(reply))
            /\ writePos' = Append(writePos, Len(Flatten(sent)) - Len(pipe))
            /\ history' = AppendEntry(history, <<"DOCTOR", reply>>)
            /\ IF pc = "end_write"
               THEN /\ pc' = "finally"
                    /\ endReason' = "END_SIGNAL"
                    /\ UNCHANGED <<tail, rounds>>
               ELSE /\ rounds' = rounds + 1
                    /\ IF RoundLimitReached(rounds + 1, max_rounds)
                       THEN /\ pc' = "finally"
                            /\ endReason' = "ROUND_LIMIT"
                            /\ tail' = tail
                       ELSE /\ tail' = TailAfterReply(tail)
                            /\ IF TimedOut(now, t_last_output, prompt_timeout_s)
                               THEN pc' = "finally" /\ endReason' = "TIMEOUT"
                               ELSE pc' = "read" /\ endReason' = endReason
    /\ UNCHANGED <<stopVars, bridgeVars>>
    /\ UNCHANGED <<cur_line, t_last_output, reply, cfgVars, clockVars, pipe, peerAlive,
                   sent, replyArgs, outcome, terminateCalls, killSent>>

\* f_in.write(reply.rstrip() + "\n"); f_in.flush() and what follows it in
\* the iteration.  The write raises BrokenPipeError when the child has exited.
WriteReply ==
    /\ pc \in {"end_write", "tail_write"}
    /\ IF ~peerAlive
       THEN /\ exc' = "write"
            /\ pc' = "finally"
            /\ UNCHANGED <<history, tail, rounds, stdin_log, writePos, endReason>>
       ELSE /\ exc' = exc
            /\ stdin_log' = Append(stdin_log, FormatReply(reply))
            /\ writePos' = Append(writePos, Len(Flatten(sent)) - Len(pipe))
            /\ history' = AppendEntry(history, <<"DOCTOR", reply>>)
            /\ IF pc = "end_write"
               THEN /\ pc' = "finally"
                    /\ endReason' = "END_SIGNAL"
                    /\ UNCHANGED <<tail, rounds>>
               ELSE /\ rounds' = rounds + 1
                    /\ IF RoundLimitReached(rounds + 1, max_rounds)
                       THEN /\ pc' = "finally"
                            /\ endReason' = "ROUND_LIMIT"
                            /\ tail' = tail
                       ELSE /\ tail' = TailAfterReply(tail)
                            /\ IF TimedOut(now, t_last_output, prompt_timeout_s)
                               THEN pc' = "finally" /\ endReason' = "TIMEOUT"
                               ELSE pc' = "read" /\ endReason' = endReason
    /\ UNCHANGED <<stopVars, bridgeVars>>
    /\ UNCHANGED <<cur_line, t_last_output, reply, cfgVars, clockVars, pipe, peerAlive,
                   sent, replyArgs, outcome, terminateCalls, killSent>>

\* the child exits while the driver waits for it (self._p.wait(timeout=3))
PeerExitDuringWait ==
    /\ pc = "finally"
    /\ peerAlive
    /\ peerAlive' = FALSE
    /\ UNCHANGED <<stopVars, bridgeVars>>
    /\ UNCHANGED <<pc, driverVars, cfgVars, clockVars, pipe, sent, ghostVars>>

\* a terminate() that the normal exit alone reaches
TerminateOnlyAfterLoop ==
    /\ pc = "finally"
    /\ pc' = "exit"
    /\ terminateCalls' = IF exc = "none" THEN terminateCalls + 1 ELSE terminateCalls
    /\ killSent' = IF exc = "none" /\ peerAlive THEN killSent + 1 ELSE killSent
    /\ peerAlive' = IF exc = "none" THEN FALSE ELSE peerAlive
    /\ signalPending' = (exc = "none" /\ peerAlive)
    /\ UNCHANGED <<stopCalls, bridgeVars>>
    /\ UNCHANGED <<driverVars, cfgVars, clockVars, pipe, sent, stdin_log, writePos, replyArgs,
                   endReason, exc, outcome>>

\* finally: self.terminate(), which signals the child only if it is still
\* running (self._p.poll() is None)
Terminate ==
    /\ pc = "finally"
    /\ pc' = "exit"
    /\ terminateCalls' = terminateCalls + 1
    /\ killSent' = IF peerAlive THEN killSent + 1 ELSE killSent
    /\ peerAlive' = FALSE
    /\ signalPending' = peerAlive
    /\ UNCHANGED <<stopCalls, bridgeVars>>
    /\ UNCHANGED <<driverVars, cfgVars, clockVars, pipe, sent, stdin_log, writePos, replyArgs,
                   endReason, exc, outcome>>

\* control reaches the caller: with history (return history), or with the
\* exception that left the try block
Return ==
    /\ pc = "exit"
    /\ pc' = "returned"
    /\ outcome' = IF exc = "none" THEN "return" ELSE "raise"
    /\ UNCHANGED <<stopVars, bridgeVars>>
    /\ UNCHANGED <<driverVars, cfgVars, clockVars, pipe, peerAlive, sent, stdin_log, writePos,
                   replyArgs, endReason, exc, terminateCalls, killSent>>

\* self._p is set: start() has created the child process
HasProcess == pc # "start" /\ exc # "start"

\* self._p.poll() is None: the child has not exited, or was signalled and
\* has not been reaped yet
PollIsNone == peerAlive \/ signalPending

\* terminate() without the test of self._p and without the try/except: on
\* a channel that was never started the attribute error reaches the caller
CallerTerminateUnguarded ==
    /\ pc \in {"start", "returned"}
    /\ stopCalls < MaxStops
    /\ stopCalls' = stopCalls + 1
    /\ exc' = IF HasProcess THEN exc ELSE "terminate"
    /\ killSent' = IF HasProcess /\ PollIsNone THEN killSent + 1 ELSE killSent
    /\ signalPending' = (HasProcess /\ PollIsNone)
    /\ peerAlive' = FALSE
    /\ UNCHANGED <<pc, driverVars, cfgVars, clockVars, pipe, sent, stdin_log, writePos,
                   replyArgs, endReason, outcome, terminateCalls, bridgeVars>>

\* terminate() called by the caller of run_episode, before it or after it:
\* the child is signalled only if there is one and poll() is None, and
\* every exception is swallowed
CallerTerminate ==
    /\ pc \in {"start", "returned"}
    /\ stopCalls < MaxStops
    /\ stopCalls' = stopCalls + 1
    /\ killSent' = IF HasProcess /\ PollIsNone THEN killSent + 1 ELSE killSent
    /\ signalPending' = (HasProcess /\ PollIsNone)
    /\ peerAlive' = FALSE
    /\ UNCHANGED <<pc, driverVars, cfgVars, clockVars, pipe, sent, stdin_log, writePos,
                   replyArgs, endReason, exc, outcome, terminateCalls, bridgeVars>>

\* the signalled child exits and is reaped: poll() no longer returns None
Reap ==
    /\ signalPending
    /\ signalPending' = FALSE
    /\ UNCHANGED <<pc, driverVars, cfgVars, clockVars, pipe, peerAlive, sent,
                   ghostVars, stopCalls, bridgeVars>>

Next ==
    \/ Start
    \/ StartFail
    \/ \E f \in AllFrags : PeerWrite(f)
    \/ PeerExit
    \/ Tick
    \/ ReadChar
    \/ ReadEOF
    \/ InvokeReply
    \/ WriteReply
    \/ PeerExitDuringWait
    \/ Terminate
    \/ Return

Spec == Init /\ [][Next]_vars

\* the driver runs on as long as it can take a step, and time passes
DriverNext ==
    Start \/ ReadChar \/ ReadEOF \/ InvokeReply \/ WriteReply \/ Terminate \/ Return

FairSpec == Spec /\ WF_vars(DriverNext) /\ WF_vars(Tick)

\* a peer that follows ScriptLongLine
PeerWriteLong(f) ==
    /\ pc = "read"
    /\ peerAlive
    /\ pipe = <<>>
    /\ IsPrefix(Append(sent, f), ScriptLongLine)
    /\ pipe' = f
    /\ sent' = Append(sent, f)
    /\ UNCHANGED <<stopVars, bridgeVars>>
    /\ UNCHANGED <<pc, driverVars, cfgVars, clockVars, peerAlive, ghostVars>>

\* a session built with the largest round limit and timeout of the model
LongInit ==
    /\ Init
    /\ max_rounds = MaxRoundsCfg
    /\ prompt_timeout_s = MaxTimeoutCfg

\* run_episode with a peer that prints a long line
LongNext ==
    \/ Start
    \/ StartFail
    \/ \E f \in {LongNoise, PromptLine} : PeerWriteLong(f)
    \/ PeerExit
    \/ Tick
    \/ ReadChar
    \/ ReadEOF
    \/ InvokeReply
    \/ WriteReply
    \/ PeerExitDuringWait
    \/ Terminate
    \/ Return

LongSpec == LongInit /\ [][LongNext]_vars

\* a peer that prints one prompt and then waits for the reply
PeerWritePrompt(f) ==
    /\ pc = "read"
    /\ peerAlive
    /\ pipe = <<>>
    /\ sent = <<>>
    /\ f \in PromptDialects
    /\ pipe' = f
    /\ sent' = Append(sent, f)
    /\ UNCHANGED <<stopVars, bridgeVars>>
    /\ UNCHANGED <<pc, driverVars, cfgVars, clockVars, peerAlive, ghostVars>>

\* run_episode with a peer that prints one prompt
PromptNext ==
    \/ Start
    \/ StartFail
    \/ \E f \in PromptDialects : PeerWritePrompt(f)
    \/ PeerExit
    \/ Tick
    \/ ReadChar
    \/ ReadEOF
    \/ InvokeReply
    \/ WriteReply
    \/ PeerExitDuringWait
    \/ Terminate
    \/ Return

PromptSpec == Init /\ [][PromptNext]_vars

\* run_episode with a caller that also calls terminate() itself, before
\* run_episode or after it
StopNext == Next \/ CallerTerminate \/ Reap

StopSpec == Init /\ [][StopNext]_vars

(***************************************************************************)
(* The reply callback of code/bridge/dylan_bridge.py.                      *)
(***************************************************************************)
\* for spk, txt in history[-12:]
HISTORY_WINDOW == 12
\* largest history a callback is looked at with
MaxCbHistory == 2

W_final_answer == <<"f", "i", "n", "a", "l", "_", "a", "n", "s", "w", "e", "r">>
W_final_answer_sp == <<"f", "i", "n", "a", "l", " ", "a", "n", "s", "w", "e", "r">>
W_answer_colon == <<"a", "n", "s", "w", "e", "r", ":">>

\* (?:FINAL_ANSWER|Final Answer|Answer:) matched at position p of s
FinalMarkerEnds(s, p) ==
    Lit(s, {p}, W_final_answer) \cup Lit(s, {p}, W_final_answer_sp)
        \cup Lit(s, {p}, W_answer_colon)

\* the positions FINAL_PAT can match at
FinalStarts(s) == {p \in 0..Len(s) : FinalMarkerEnds(s, p) # {}}

\* bool(FINAL_PAT.search(raw))
FinalPatFound(s) == FinalStarts(s) # {}

\* m.group(1) of FINAL_PAT.search(raw): the leftmost match; \s* takes all
\* the white space after the marker (newlines too), and (.*) the rest of
\* the line it stops in
FinalPatGroup(s) ==
    LET p == MinOf(FinalStarts(s))
        g == MaxOf(WsStar(s, FinalMarkerEnds(s, p)))
        e == MinOf({Len(s)} \cup {k - 1 : k \in {j \in (g + 1)..Len(s) : s[j] = "\n"}})
    IN  SubSeq(s, g + 1, e)

\* the characters str.splitlines() breaks a text at
IsLineBreak(c) == c \in {"\n", "\r", "\f"}

\* lines = [ln.strip() for ln in raw.splitlines() if ln.strip()];
\* lines[-1] if lines else ""
LastNonEmptyLine(s) ==
    LET e == MaxOf({0} \cup {i \in 1..Len(s) : ~IsSpace(s[i])})
        b == MaxOf({0} \cup {i \in 1..e : IsLineBreak(s[i])})
    IN  Strip(SubSeq(s, b + 1, e))

\* _render_query_from_history(history): four lines of instructions, the
\* last HISTORY_WINDOW entries as "speaker: text", an empty line, "DOCTOR:"
RenderQuery(h) ==
    <<"You are a concise clinician. Reply with ONE short turn.",
      "If unsure, ask ONE concrete, high-value question OR order ONE test;",
      "If sufficient evidence, give a FINAL diagnosis with 1-2 key evidences.",
      "">>
    \o LastN(h, HISTORY_WINDOW) \o <<"", "DOCTOR:">>

\* dylan_answer_once(root, query): o says what the run of run_DyLAN.py
\* does: the script is missing, the run exceeds timeout_s
\* (subprocess.TimeoutExpired), or it ends having printed o[2]
dylan_answer_once(query, o) ==
    IF o[1] = "missing" THEN <<"return", <<>>>>
    ELSE IF o[1] = "timeout" THEN <<"raise", <<>>>>
    ELSE LET raw == Strip(o[2])
         IN  IF FinalPatFound(raw)
             THEN <<"return", Strip(FinalPatGroup(raw))>>
             ELSE <<"return", LastNonEmptyLine(raw)>>

FallbackReply == <<"C", "o", "u", "l", "d", " ", "y", "o", "u", " ", "t", "e", "l", "l", " ", "m", "e", " ", "w", "h", "e", "n", " ", "t", "h", "e", " ", "s", "y", "m", "p", "t", "o", "m", "s", " ", "s", "t", "a", "r", "t", "e", "d", " ", "a", "n", "d", " ", "a", "n", "y", " ", "t", "r", "i", "g", "g", "e", "r", "s", "?", " ", "I", " ", "m", "a", "y", " ", "o", "r", "d", "e", "r", " ", "b", "a", "s", "i", "c", " ", "l", "a", "b", "s", ".">>

\* _fn(history) of make_doctor_callback: the answer, or the fallback
\* question when the answer is empty or blank
DoctorCallback(h, o) ==
    LET ans == dylan_answer_once(RenderQuery(h), o)
    IN  IF ans[1] = "raise" THEN ans
        ELSE IF ans[2] # <<>> /\ Strip(ans[2]) # <<>> THEN ans
        ELSE <<"return", FallbackReply>>

OutEmpty == <<>>
OutBlank == <<" ", "\n">>
OutFinalAnswer == <<"l", "o", "g", "\n", "F", "I", "N", "A", "L", "_", "A", "N", "S", "W", "E", "R", ":", " ", "f", "l", "u", "\n">>
OutMarkerOnly == <<"F", "I", "N", "A", "L", "_", "A", "N", "S", "W", "E", "R", ":", " ", "\n">>
OutAnswerColon == <<"A", "n", "s", "w", "e", "r", ":", "\n", " ", "f", "l", "u", "\n", "x">>
OutAnswerColonOnly == <<"x", "\n", "a", "n", "s", "w", "e", "r", ":">>
OutFinalAnswerSp == <<"F", "i", "n", "a", "l", " ", "A", "n", "s", "w", "e", "r">>
OutLastLine == <<"l", "o", "g", "\n", " ", "f", "l", "u", " ", "\n", "\n">>

\* what run_DyLAN.py prints: nothing, blank lines, an answer after one of
\* the markers, a marker with nothing after it, lines without a marker
StdoutTexts ==
    {OutEmpty, OutBlank, OutFinalAnswer, OutMarkerOnly,
     OutAnswerColon, OutAnswerColonOnly, OutFinalAnswerSp, OutLastLine}

AnswerOutcomes ==
    {<<"missing", <<>>>>, <<"timeout", <<>>>>} \cup {<<"stdout", t>> : t \in StdoutTexts}

CbEntries == {<<"PATIENT", <<"h", "i">>>>, <<"DOCTOR", ReplyA>>}

CbHistories ==
    UNION {[1..n -> CbEntries] : n \in 0..MaxCbHistory}

\* a callback is built and is about to be called with some history
BridgeInit ==
    /\ EpisodeInit
    /\ max_rounds = 1
    /\ prompt_timeout_s = 1
    /\ cbHistory \in CbHistories
    /\ cbOutcome \in AnswerOutcomes
    /\ cbResult = <<"none", <<>>>>

\* the call of the callback
BridgeCall ==
    /\ cbResult[1] = "none"
    /\ cbResult' = DoctorCallback(cbHistory, cbOutcome)
    /\ UNCHANGED <<pc, driverVars, cfgVars, clockVars, pipe, peerAlive, sent,
                   ghostVars, stopVars, cbHistory, cbOutcome>>

BridgeNext == BridgeCall

BridgeSpec == BridgeInit /\ [][BridgeNext]_vars

(***************************************************************************)
(* Properties.                                                             *)
(***************************************************************************)
\* the output the driver has read so far
Consumed ==
    LET all == Flatten(sent) IN SubSeq(all, 1, Len(all) - Len(pipe))

\* the line that the newline at position i of out completes
LineAt(out, i) ==
    SubSeq(out, MaxOf({0} \cup {j \in 1..(i - 1) : out[j] = "\n"}) + 1, i - 1)

DriverEntries(h) == {i \in 1..Len(h) : h[i][1] = "DOCTOR"}
PatientEntries(h) == {i \in 1..Len(h) : h[i][1] = "PATIENT"}

\* one line of text ended by a single newline
IsOneLine(w) ==
    /\ Len(w) >= 1
    /\ w[Len(w)] = "\n"
    /\ \A i \in 1..(Len(w) - 1) : w[i] # "\n"

\* C1: the round counter never exceeds max_rounds, and a session that left
\* the loop because of the round limit has a round counter of exactly
\* max_rounds.
C1_RoundsBounded ==
    /\ rounds <= max_rounds
    /\ endReason = "ROUND_LIMIT" => rounds = max_rounds

C1_Witness ==
    pc = "returned" /\ endReason = "ROUND_LIMIT" /\ max_rounds = 2 /\ rounds = 2

\* the peer is silent, its stdout is open, the driver waits in read(1), and
\* more than prompt_timeout_s has passed since the last character
StalledNow ==
    /\ pc = "read"
    /\ pipe = <<>>
    /\ peerAlive
    /\ now - t_last_output > prompt_timeout_s

\* C2: when the peer has been silent for more than the idle timeout with
\* its stdout still open, then, unless the peer writes or exits after all,
\* the session eventually ends with reason TIMEOUT.
C2_StalledPeerTimesOut ==
    StalledNow ~> (endReason = "TIMEOUT" \/ pipe # <<>> \/ ~peerAlive)

\* C3: a session whose peer wrote nothing for longer than the idle timeout
\* and then closed its stdout ends with reason TIMEOUT, not STREAM_CLOSED.
C3_SilenceThenCloseIsTimeout ==
    (pc = "returned" /\ exc = "none" /\ sent = <<>> /\ stalledTooLong)
        => endReason = "TIMEOUT"

\* no prefix of out ends in a prompt, and no completed line of out is a
\* patient line or an end-of-session line
QuietOutput(out) ==
    /\ \A i \in 1..Len(out) : ~TailHasPrompt(SubSeq(out, 1, i))
    /\ \A i \in 1..Len(out) :
          out[i] = "\n" =>
              ~IsPatientLine(LineAt(out, i)) /\ ~IsEndLine(LineAt(out, i))

\* C4: in a session whose output shows no prompt tail and completes no
\* patient or end-of-session line, and whose peer is never silent for longer
\* than the idle timeout, the callback is never called, nothing is written
\* to stdin, the transcript has no DOCTOR entry, and the session can only
\* end with reason STREAM_CLOSED, returning the transcript.
C4_QuietSessionEndsStreamClosed ==
    \/ /\ replyArgs = <<>>
       /\ stdin_log = <<>>
       /\ DriverEntries(history) = {}
       /\ endReason \in {"NONE", "STREAM_CLOSED"}
       /\ (pc = "returned" /\ exc # "start")
             => (endReason = "STREAM_CLOSED" /\ outcome = "return")
    \/ stalledTooLong
    \/ ~QuietOutput(Consumed)

C4_Witness ==
    /\ pc = "returned"
    /\ endReason = "STREAM_CLOSED"
    /\ Len(sent) = 2
    /\ now = 2
    /\ ~stalledTooLong
    /\ QuietOutput(Consumed)

\* the peer writes "Doctor: " one character at a time
InDoctorPromptScript ==
    sent # <<>> /\ IsPrefix(sent, ScriptDoctorPrompt)

\* C5: when the peer writes "Doctor: " one character at a time and then
\* waits, a session with max_rounds = 1 never calls the callback or writes
\* to stdin more than once, and when it has ended with the callback's reply
\* sent and the peer still waiting, it has called the callback once,
\* written one line ended by a single newline, and ended with ROUND_LIMIT.
C5_DoctorPromptOneReply ==
    (InDoctorPromptScript /\ max_rounds = 1) =>
        /\ Len(replyArgs) <= 1
        /\ Len(stdin_log) <= 1
        /\ \A i \in 1..Len(stdin_log) : IsOneLine(stdin_log[i])
        /\ (pc = "returned" /\ exc = "none" /\ killSent = 1) =>
              /\ Len(replyArgs) = 1
              /\ Len(stdin_log) = 1
              /\ endReason = "ROUND_LIMIT"

C5_Witness ==
    /\ InDoctorPromptScript
    /\ max_rounds = 1
    /\ pc = "returned"
    /\ killSent = 1
    /\ reply = ReplyB
    /\ stdin_log = <<<<"o", "k", "\n">>>>
    /\ endReason = "ROUND_LIMIT"

\* the peer writes the patient line and then "Doctor:" without a newline
InHeadacheScript ==
    sent # <<>> /\ IsPrefix(sent, ScriptHeadache)

C7_SceneLineEndsSession ==
    (sent = ScriptDiagnosis /\ pipe = <<>>) =>
        /\ pc # "read"
        /\ endReason \in {"NONE", "END_SIGNAL"}
        /\ PatientEntries(history) = {}

\* C8: a write to stdin that fails because the peer has exited ends the
\* session like an end of stream: run_episode returns the transcript, with
\* end reason STREAM_CLOSED, and raises nothing.
C8_WriteFailureIsStreamClosed ==
    (pc = "returned" /\ exc = "write") =>
        (outcome = "return" /\ endReason = "STREAM_CLOSED")

\* C9: once the callback has raised, nothing more is written to stdin,
\* appended to the transcript, counted as a round or read from stdout; the
\* driver only goes on to terminate(), and the caller gets the exception
\* with the child stopped.
C9_ReplyFailureEndsSession ==
    [][exc' = "reply" =>
          /\ stdin_log' = stdin_log
          /\ history' = history
          /\ rounds' = rounds
          /\ pipe' = pipe
          /\ Len(stdin_log') < Len(replyArgs')
          /\ pc' \in {"finally", "exit", "returned"}
          /\ pc' \in {"exit", "returned"} => (terminateCalls' = 1 /\ ~peerAlive')
          /\ pc' = "returned" => outcome' = "raise"]_vars

C9_Witness ==
    /\ pc = "returned"
    /\ exc = "reply"
    /\ outcome = "raise"
    /\ Len(replyArgs) = 2
    /\ Len(stdin_log) = 1

\* C10: on every way out of run_episode after start() (a break of the loop
\* or an exception in it) terminate() is called exactly once: not before
\* the loop is left, nothing is read or written after it, and the caller
\* gets control only after it.
C10_TerminateExactlyOnce ==
    /\ [](/\ terminateCalls = IF pc \in {"exit", "returned"} /\ exc # "start"
                               THEN 1 ELSE 0
          /\ outcome # "none" <=> pc = "returned")
    /\ [][terminateCalls = 1 =>
            /\ terminateCalls' = 1
            /\ pipe' = pipe
            /\ stdin_log' = stdin_log
            /\ replyArgs' = replyArgs
            /\ history' = history]_vars

C10_Witness ==
    /\ pc = "returned"
    /\ exc = "write"
    /\ outcome = "raise"
    /\ terminateCalls = 1
    /\ killSent = 0

\* C11: a call of terminate() on a channel that was never started, whose
\* child has exited by itself, or that was terminated before, raises
\* nothing, leaves the child stopped, and leaves the transcript and the
\* result of run_episode as they were; after a first terminate() a second
\* one changes nothing of the channel but the signal it may send again to a
\* child that is still exiting.
C11_TerminateIdempotent ==
    [][stopCalls' = stopCalls + 1 =>
          /\ exc' = exc
          /\ ~peerAlive'
          /\ history' = history
          /\ outcome' = outcome
          /\ (stopCalls >= 1 \/ terminateCalls >= 1) =>
                UNCHANGED <<pc, driverVars, cfgVars, clockVars, pipe, peerAlive,
                            sent, stdin_log, writePos, replyArgs, endReason, exc,
                            outcome, terminateCalls>>]_vars

C11_Witness ==
    /\ pc = "returned"
    /\ outcome = "return"
    /\ history # <<>>
    /\ terminateCalls = 1
    /\ stopCalls = 2
    /\ killSent = 2
    /\ ~peerAlive

\* the positions of the newlines of out that complete a patient line
PatientPositions(out) ==
    {i \in 1..Len(out) : out[i] = "\n" /\ IsPatientLine(LineAt(out, i))}

\* the k-th smallest element of a set of numbers
NthOf(S, k) == CHOOSE x \in S : Cardinality({y \in S : y < x}) = k - 1

\* the entries of h with speaker sp, in their order
EntriesOf(h, sp) == {i \in 1..Len(h) : h[i][1] = sp}

\* C12: the transcript only grows, one entry at a time and at its end; and
\* at every moment (so also when it is returned) its PATIENT entries are
\* the texts of the patient lines completed so far, in the order of the
\* output, its DOCTOR entries are the replies written to stdin, in the
\* order written, and each DOCTOR entry comes after exactly the PATIENT
\* entries whose lines were completed before the reply was written.
C12_TranscriptAppendOnly ==
    /\ [](\E out \in {Consumed} :
            \E pp \in {PatientPositions(out)} :
               /\ Cardinality(EntriesOf(history, "PATIENT")) = Cardinality(pp)
               /\ \A k \in 1..Cardinality(pp) :
                     history[NthOf(EntriesOf(history, "PATIENT"), k)][2]
                         = PatientText(LineAt(out, NthOf(pp, k)))
               /\ Cardinality(EntriesOf(history, "DOCTOR")) = Len(stdin_log)
               /\ \A k \in 1..Len(stdin_log) :
                     \E j \in {NthOf(EntriesOf(history, "DOCTOR"), k)} :
                        /\ FormatReply(history[j][2]) = stdin_log[k]
                        /\ Cardinality({i \in EntriesOf(history, "PATIENT") : i < j})
                              = Cardinality({q \in pp : q <= writePos[k]})
               /\ \A i \in 1..Len(history) : history[i][1] \in {"PATIENT", "DOCTOR"})
    /\ [][\/ history' = history
          \/ /\ Len(history') = Len(history) + 1
             /\ SubSeq(history', 1, Len(history)) = history]_vars

C12_Witness ==
    /\ pc = "returned"
    /\ outcome = "return"
    /\ Len(history) = 3
    /\ history[1][1] = "DOCTOR"
    /\ history[2][1] = "PATIENT"
    /\ history[3][1] = "DOCTOR"

EndReasons == {"ROUND_LIMIT", "END_SIGNAL", "STREAM_CLOSED", "TIMEOUT"}

\* C13: a session that has ended, other than by a failure of start() or of
\* the callback, left the loop for exactly one of the reasons ROUND_LIMIT,
\* END_SIGNAL, STREAM_CLOSED and TIMEOUT; and once the loop is left for a
\* reason, the reason stays, and nothing more is read from stdout, asked of
\* the callback, written to stdin or appended to the transcript.
C13_OneEndReasonTerminal ==
    /\ []((pc = "returned" /\ exc \notin {"start", "reply"})
             => endReason \in EndReasons)
    /\ [][endReason # "NONE" =>
             /\ endReason' = endReason
             /\ pipe' = pipe
             /\ replyArgs' = replyArgs
             /\ stdin_log' = stdin_log
             /\ history' = history]_vars

\* C14: a callback built by make_doctor_callback, called with any history
\* (the empty one too), whatever the run of run_DyLAN.py does (the script
\* is missing, it prints nothing, it prints a marker with nothing after it,
\* it does not end in time), returns a text, and the text is not empty and
\* not blank.
C14_CallbackTotalNonEmpty ==
    cbResult[1] # "none" =>
        /\ cbResult[1] = "return"
        /\ Strip(cbResult[2]) # <<>>

\* C15: the round counter equals the number of replies written to stdin,
\* which is the number of DOCTOR entries of the transcript, the reply to an
\* end-of-session line included; and it never decreases.
C15_RoundsCountReplies ==
    /\ [](/\ rounds = Len(stdin_log)
          /\ rounds = Cardinality(EntriesOf(history, "DOCTOR")))
    /\ [][rounds' >= rounds]_vars

\* the newlines read so far that complete an end-of-session line
EndLinePositions(out) ==
    {i \in 1..Len(out) : out[i] = "\n" /\ IsEndLine(LineAt(out, i))}

\* C16: once a line that is an end-of-session line has been completed, no
\* further character is read and no tail-prompt reply is asked for; the
\* callback is called once more, with the transcript as it is then; and
\* when the callback has returned and the write has succeeded, that reply is
\* the last line written to stdin, (DOCTOR, reply) is the last entry of
\* the transcript, and the loop has been left with reason END_SIGNAL.
C16_EndLineOneMoreReply ==
    \E out \in {Consumed} :
       EndLinePositions(out) # {} =>
          /\ EndLinePositions(out) = {Len(out)}
          /\ pc \notin {"read", "tail_reply", "tail_write"}
          /\ endReason \in {"NONE", "END_SIGNAL"}
          /\ pc = "end_reply" =>
                /\ Len(replyArgs) = Len(stdin_log)
                /\ \A k \in 1..Len(writePos) : writePos[k] < Len(out)
          /\ pc = "end_write" =>
                /\ Len(replyArgs) = Len(stdin_log) + 1
                /\ replyArgs[Len(replyArgs)] = history
                /\ \A k \in 1..Len(writePos) : writePos[k] < Len(out)
          /\ (pc \in {"finally", "exit", "returned"} /\ exc = "none") =>
                /\ endReason = "END_SIGNAL"
                /\ Len(replyArgs) = Len(stdin_log)
                /\ {k \in 1..Len(writePos) : writePos[k] = Len(out)} = {Len(writePos)}
                /\ stdin_log[Len(stdin_log)] = FormatReply(reply)
                /\ history = Append(replyArgs[Len(replyArgs)], <<"DOCTOR", reply>>)
          /\ exc # "none" => endReason = "NONE"

C16_Witness ==
    /\ pc = "returned"
    /\ outcome = "return"
    /\ endReason = "END_SIGNAL"
    /\ EndLinePositions(Consumed) # {}
    /\ Len(stdin_log) = 2
    /\ Len(history) = 3
    /\ history[3] = <<"DOCTOR", ReplyB>>

\* C17: a completed line is a patient utterance, or the end-of-session
\* signal, or neither, never two of these: when a line has been taken as
\* the end-of-session signal (the driver has left reading for the last
\* reply), the transcript holds PATIENT entries for the patient lines
\* completed before it only, and none for that line.
C17_OneClassification ==
    \E out \in {Consumed} :
       (EndLinePositions(out) # {} /\ pc # "read") =>
          Cardinality(EntriesOf(history, "PATIENT"))
             = Cardinality(PatientPositions(out) \ EndLinePositions(out))

\* C18: the tail never holds more than 512 characters; and when a reply to
\* a prompt tail has been written and the loop goes on reading, the tail is
\* empty.
C18_TailBoundedAndCleared ==
    /\ [](Len(tail) <= 512)
    /\ [][(pc = "tail_write" /\ pc' = "read") => tail' = <<>>]_vars

C18_Witness ==
    /\ sent = ScriptLongLine
    /\ Len(Consumed) = TAIL_KEEP + 7
    /\ pc = "read"
    /\ Len(stdin_log) = 1
    /\ tail = <<>>
    /\ Len(cur_line) = TAIL_KEEP + 7

\* C19: when the peer prints one prompt, in any of the dialects, the
\* callback is called once and one reply is written, on the first prefix
\* of the prompt that PROMPT_TAIL_PAT accepts: the characters of the prompt
\* that follow (progress suffix, colon, white space) trigger no second
\* reply, so that a session that has read the whole prompt and goes on
\* waiting, or has ended without an exception, has written exactly one
\* reply.
C19_OnePromptOneReply ==
    (Len(sent) = 1 /\ sent[1] \in PromptDialects) =>
        /\ Len(replyArgs) <= 1
        /\ Len(stdin_log) <= 1
        /\ rounds <= 1
        /\ (pc = "read" /\ pipe = <<>>) => Len(stdin_log) = 1
        /\ (endReason # "NONE" /\ exc = "none") => Len(stdin_log) = 1

C19_Witness ==
    /\ sent = <<PromptDoctorProgress>>
    /\ max_rounds = 2
    /\ pc = "read"
    /\ pipe = <<>>
    /\ peerAlive
    /\ Len(stdin_log) = 1
    /\ rounds = 1
    /\ tail = SubSeq(PromptDoctorProgress, 7, Len(PromptDoctorProgress))

\* C20: when the last character read is a newline, the line accumulator
\* is empty, whether the line it completed was a patient line, an
\* end-of-session line or any other line.
C20_LineClearedAfterNewline ==
    \E out \in {Consumed} :
       (out # <<>> /\ out[Len(out)] = "\n") => cur_line = <<>>

\* a reply to a prompt tail has just been written and nothing was read
\* since: the driver is back at read(1)
JustRepliedMidLine ==
    /\ pc = "read"
    /\ writePos # <<>>
    /\ writePos[Len(writePos)] = Len(Consumed)
    /\ Consumed[Len(Consumed)] # "\n"

\* C21: right after a reply that the tail check triggered in the middle
\* of a line, the line accumulator is empty.
C21_LineClearedAfterMidLineReply ==
    JustRepliedMidLine => cur_line = <<>>

\* C22: a session ends with TIMEOUT only when a read of the child's
\* output has blocked for more than prompt_timeout_s; time the callback
\* takes to reply does not by itself end the session with TIMEOUT.
C22_TimeoutOnlyFromIdlePeer ==
    endReason = "TIMEOUT" => stalledTooLong

(***************************************************************************)
(* run_episode with a peer whose output holds runs of blanks longer than   *)
(* the match window of _tail_has_prompt.                                   *)
(***************************************************************************)
PeerWriteGap(f) ==
    /\ pc = "read"
    /\ peerAlive
    /\ pipe = <<>>
    /\ \E sc \in GapScripts : IsPrefix(Append(sent, f), sc)
    /\ pipe' = f
    /\ sent' = Append(sent, f)
    /\ UNCHANGED <<stopVars, bridgeVars>>
    /\ UNCHANGED <<pc, driverVars, cfgVars, clockVars, peerAlive, ghostVars>>

GapNext ==
    \/ Start
    \/ StartFail
    \/ \E f \in GapFrags : PeerWriteGap(f)
    \/ PeerExit
    \/ Tick
    \/ ReadChar
    \/ ReadEOF
    \/ InvokeReply
    \/ WriteReply
    \/ PeerExitDuringWait
    \/ Terminate
    \/ Return

GapSpec == LongInit /\ [][GapNext]_vars

\* the unit read last
LastUnit == Consumed[Len(Consumed)]

\* C23: whenever the tail check has triggered a reply, the unit read last
\* is neither a newline nor any other whitespace character.
C23_TailReplyNotOnWhitespace ==
    pc \in {"tail_reply", "tail_write"} => ~IsSpace(LastUnit)

\* a reply is triggered with more than TAIL_WINDOW characters in the tail,
\* blanks and a newline among them
C23_Witness ==
    /\ pc = "tail_reply"
    /\ Len(tail) > TAIL_WINDOW
    /\ \E i \in 1..Len(tail) : tail[i] = "\n"
    /\ \E i \in 1..Len(tail) : tail[i] = " "
    /\ ~IsSpace(LastUnit)

\* read(1) is about to return the newline of a line that is neither a
\* patient line nor an end-of-session line
OtherLineCompletes ==
    /\ pc = "read"
    /\ pipe # <<>>
    /\ Head(pipe) = "\n"
    /\ ~IsPatientLine(cur_line)
    /\ ~IsEndLine(cur_line)

\* C24: reading the newline of a line that is neither a patient line nor
\* an end-of-session line changes neither the transcript nor the round
\* counter, calls no callback, writes nothing and leaves the loop running.
C24_OtherLineHasNoEffect ==
    [][(OtherLineCompletes /\ pipe' = Tail(pipe))
          => /\ history' = history
             /\ rounds' = rounds
             /\ replyArgs' = replyArgs
             /\ stdin_log' = stdin_log
             /\ exc' = exc
             /\ endReason' = endReason
             /\ pc' = "read"]_vars

\* an unrecognized line has been completed after the transcript got its
\* first entry, and the loop is reading on
C24_Witness ==
    /\ pc = "read"
    /\ endReason = "NONE"
    /\ history # <<>>
    /\ Consumed # <<>>
    /\ LastUnit = "\n"
    /\ \E line \in {LineAt(Consumed, Len(Consumed))} :
          /\ line # <<>>
          /\ ~IsPatientLine(line)
          /\ ~IsEndLine(line)

\* the texts of the DOCTOR entries of h, in order
DoctorTexts(h) ==
    [k \in 1..Cardinality(EntriesOf(h, "DOCTOR")) |->
        h[NthOf(EntriesOf(h, "DOCTOR"), k)][2]]

\* C25: the writes to stdin are, in order, the DOCTOR entries of the
\* transcript, each with its trailing whitespace removed and one newline
\* appended; a reply whose write failed is not in the transcript.
C25_WritesMatchDoctorEntries ==
    \E d \in {DoctorTexts(history)} :
       /\ Len(stdin_log) = Len(d)
       /\ \A k \in 1..Len(d) :
             /\ stdin_log[k] = RStrip(d[k]) \o <<"\n">>
             /\ IsOneLine(stdin_log[k])

\* a reply returned with trailing whitespace was written, and the write
\* of a second reply failed
C25_Witness ==
    /\ pc = "returned"
    /\ exc = "write"
    /\ Len(replyArgs) = 2
    /\ DoctorTexts(history) = <<ReplyB>>
    /\ stdin_log = <<<<"o", "k", "\n">>>>

\* C26: whether the loop replies after a unit is decided by the content
\* of the tail alone: after every unit that reaches the tail check, the
\* callback is called next exactly when _tail_has_prompt holds of the
\* tail, whatever the transcript, the round counter and the line read so
\* far are.
C26_VerdictFromTailOnly ==
    [][(pc = "read" /\ pipe # <<>> /\ pipe' = Tail(pipe) /\ pc' # "end_reply")
          => ((pc' = "tail_reply") <=> TailHasPrompt(tail'))]_vars

\* a second reply is triggered by a tail that differs from the line read
\* so far, with an entry in the transcript and one round counted
C26_Witness ==
    /\ pc = "tail_reply"
    /\ TailHasPrompt(tail)
    /\ rounds = 1
    /\ history # <<>>
    /\ cur_line # tail
    /\ ~TailHasPrompt(SubSeq(cur_line, 1, Len(cur_line) - 1))

\* C27: the callback is called at most max_rounds times in a session, the
\* call for the reply to an end-of-session line included, and the
\* transcript holds at most max_rounds DOCTOR entries.
C27_RepliesBoundedByMaxRounds ==
    /\ Len(replyArgs) <= max_rounds
    /\ Cardinality(DriverEntries(history)) <= max_rounds

\* a session with max_rounds = 2 that replied once to a prompt and once to
\* an end-of-session line
C27_Witness ==
    /\ pc = "returned"
    /\ outcome = "return"
    /\ max_rounds = 2
    /\ endReason = "END_SIGNAL"
    /\ Len(replyArgs) = 2
    /\ Cardinality(DriverEntries(history)) = 2

\* C28: the callback is called at most once for a unit read from stdout:
\* the replies written so far were written after different units, and
\* when the callback is about to be called or has just returned, all of
\* them were written before the unit read last.
C28_OneReplyPerUnit ==
    /\ \A j, k \in 1..Len(writePos) : j < k => writePos[j] < writePos[k]
    /\ Len(replyArgs) <= Len(writePos) + 1
    /\ pc \in {"end_reply", "tail_reply", "end_write", "tail_write"} =>
          /\ \A k \in 1..Len(writePos) : writePos[k] < Len(Consumed)
          /\ Len(replyArgs) = Len(writePos)
                + (IF pc \in {"end_write", "tail_write"} THEN 1 ELSE 0)

\* the newline of an end-of-session line has been read right after a
\* prompt that was replied to, and the callback is called for it
C28_Witness ==
    /\ pc = "end_write"
    /\ Len(writePos) = 1
    /\ Len(replyArgs) = 2
    /\ TailHasPrompt(SubSeq(Consumed, 1, writePos[1]))

(***************************************************************************)
(* run_episode with a peer whose patient line mentions a doctor.           *)
(***************************************************************************)
PeerWriteMention(f) ==
    /\ pc = "read"
    /\ peerAlive
    /\ pipe = <<>>
    /\ IsPrefix(Append(sent, f), ScriptPatientMentionsDoctor)
    /\ pipe' = f
    /\ sent' = Append(sent, f)
    /\ UNCHANGED <<stopVars, bridgeVars>>
    /\ UNCHANGED <<pc, driverVars, cfgVars, clockVars, peerAlive, ghostVars>>

MentionNext ==
    \/ Start
    \/ StartFail
    \/ \E f \in {PatientDoctorLine, PromptLine} : PeerWriteMention(f)
    \/ PeerExit
    \/ Tick
    \/ ReadChar
    \/ ReadEOF
    \/ InvokeReply
    \/ WriteReply
    \/ PeerExitDuringWait
    \/ Terminate
    \/ Return

MentionSpec == Init /\ [][MentionNext]_vars

\* C29: no reply is written between the first character of a line that
\* is then taken as a patient line and the newline of that line.
C29_NoReplyInsidePatientLine ==
    \E out \in {Consumed} :
       \A i \in PatientPositions(out) :
          \A k \in 1..Len(writePos) :
             ~(i - Len(LineAt(out, i)) <= writePos[k] /\ writePos[k] < i)

(***************************************************************************)
(* run_episode with a peer whose output ends without a newline.            *)
(***************************************************************************)
PeerWritePartial(f) ==
    /\ pc = "read"
    /\ peerAlive
    /\ pipe = <<>>
    /\ Len(sent) < MaxFrags
    /\ pipe' = f
    /\ sent' = Append(sent, f)
    /\ UNCHANGED <<stopVars, bridgeVars>>
    /\ UNCHANGED <<pc, driverVars, cfgVars, clockVars, peerAlive, ghostVars>>

PartialNext ==
    \/ Start
    \/ StartFail
    \/ \E f \in PartialFrags : PeerWritePartial(f)
    \/ PeerExit
    \/ Tick
    \/ ReadChar
    \/ ReadEOF
    \/ InvokeReply
    \/ WriteReply
    \/ PeerExitDuringWait
    \/ Terminate
    \/ Return

PartialSpec == Init /\ [][PartialNext]_vars

\* C30: when the loop has been left and the output read so far does not
\* end in a newline, the transcript holds PATIENT entries for the patient
\* lines that a newline completed and for nothing else, the loop was not
\* left for an end-of-session line, and every reply written was a reply
\* to a prompt tail.
C30_UnterminatedLineNotClassified ==
    \E out \in {Consumed} :
       (pc \in {"finally", "exit", "returned"} /\ out # <<>> /\ out[Len(out)] # "\n") =>
          /\ Cardinality(PatientEntries(history)) = Cardinality(PatientPositions(out))
          /\ endReason # "END_SIGNAL"
          /\ rounds = Len(stdin_log)
          /\ Len(replyArgs) <= rounds + 1

\* the stream was closed after a line without a newline that both
\* PATIENT_LINE_PAT and END_PATTERNS accept, and the transcript has no
\* PATIENT entry
C30_Witness ==
    /\ pc = "returned"
    /\ endReason = "STREAM_CLOSED"
    /\ IsPatientLine(cur_line)
    /\ IsEndLine(cur_line)
    /\ cur_line = Consumed
    /\ PatientEntries(history) = {}
    /\ DriverEntries(history) # {}

=============================================================================
